---- MODULE Spec2Model ----
(***************************************************************************)
(* Model of the Sentinel-2 downloader toolbox: the two tools' execute      *)
(* methods (get_img_from_screen.py, get_img_from_shp.py) and the helpers   *)
(* of utils.py they call: search_stac (paginated catalog search),          *)
(* get_fname_from_url, download_img, download_mtd and get_data.            *)
(*                                                                         *)
(* Text is a sequence of tokens: "." and "/" are the characters            *)
(* os.path.splitext looks at, every other token stands for a run of other  *)
(* characters.  A Python value that may be a string, None or the {} that   *)
(* dict.get(key, {}) answers for an absent key is a record [ty, val].      *)
(***************************************************************************)
EXTENDS Integers, Sequences, FiniteSets, TLC

\* ---------------------------------------------------------------- bounds
MaxRows == 2
MaxRequests == 3
MaxScenes == 2
MaxRuns == 2

\* ------------------------------------------------------- python values
Str(s) == [ty |-> "str", val |-> s]
None == [ty |-> "None", val |-> <<>>]
EmptyDict == [ty |-> "dict", val |-> <<>>]

\* ----------------------------------------------------------- constants
\* A catalog url: the search endpoint, and the continuation token its query
\* string carries (0: none).
Url(path, token) == [path |-> path, next |-> token]
stac_url == Url("https://earth-search.aws.element84.com/v1/search", 0)
NoValue == 0 - 9999
OutDir == <<"out">>
\* The out_prefix values: of the screen tool's parameter, and of the prefix
\* field of the feature layer's rows (rows sharing one value).
Prefixes == {<<"AOI1">>, <<"AOI2">>}
RowPrefixes == {<<"AOI1">>}
Tools == {"screen", "shp"}

\* ------------------------------------------------ the catalog (environment)
\* The href of the rel="next" link of the page served at u: the first page is
\* served at stac_url, page k > 1 at the url with token k.
NextHref(u) == Url(u.path, IF u.next = 0 THEN 2 ELSE u.next + 1)

SceneIds == <<"S2A_X", "S2B_Y", "S2C_Z", "S2A_W">>
VisHref(n) == IF n = 1 THEN <<"https:", "/", "/", "h", ".", "com", "/", "S2A_X", "/", "TCI", ".", "tif">> ELSE
              IF n = 2 THEN <<"/", "vsicurl", "/", "https:", "/", "/", "h", ".", "com", "/", "S2B_Y", "/", "TCI", ".", "jp2">> ELSE
              IF n = 3 THEN <<"https:", "/", "/", "h", ".", "com", "/", "S2C_Z", "/", "TCI">> ELSE
              <<"https:", "/", "/", "h", ".", "com", "/", "S2A_W", "/", ".", "TCI">>
MtdHref(n) == IF n = 1 THEN <<"https:", "/", "/", "h", ".", "com", "/", "S2A_X", "/", "MTD", ".", "xml">> ELSE
              IF n = 2 THEN <<"https:", "/", "/", "h", ".", "com", "/", "S2B_Y", ".", "d", "/", "MTD">> ELSE
              IF n = 3 THEN <<"https:", "/", "/", "h", ".", "com", "/", "S2C_Z", "/", "MTD", ".", "v2", ".", "xml">> ELSE
              <<"https:", "/", "/", "h", ".", "com", "/", "S2A_W", "/", "MTD", ".">>

Scene(id, v, m) == [scene_id |-> id, vis_url |-> v, mtd_url |-> m, epsg_code |-> 32633]

\* The catalog feature number n of one search, as search_stac reads it.
\* feature.get("assets", {}).get(<asset>, {}).get("href", {}) answers the href,
\* None (href: null) or {} (asset or href absent).
\* The shapes: both assets, no visual href (null for odd n, absent for even n),
\* no metadata href.
Features(n) ==
    { Scene(SceneIds[n], Str(VisHref(n)), Str(MtdHref(n))),
      Scene(SceneIds[n], IF n % 2 = 1 THEN None ELSE EmptyDict, Str(MtdHref(n))),
      Scene(SceneIds[n], Str(VisHref(n)), None) }

Link(rel, href) == [rel |-> rel, href |-> href]
\* The links arrays a page served at u can carry: with and without a next link.
LinkChoices(u) ==
    { <<>>, <<Link("self", u)>>, <<Link("next", NextHref(u)), Link("self", u)>> }

RECURSIVE FeatureSeqs(_, _)
\* The features arrays holding the catalog's features first .. first + cnt - 1.
FeatureSeqs(first, cnt) ==
    IF cnt = 0 THEN {<<>>}
    ELSE { <<f>> \o rest : f \in Features(first), rest \in FeatureSeqs(first + 1, cnt - 1) }

\* The 200 pages the catalog can answer when `used` features were served before.
OkPages(u, used) ==
    { [status_code |-> 200, returned |-> n, features |-> fs, links |-> ls] :
        n \in {0}, fs \in {<<>>}, ls \in LinkChoices(u) } \cup
    UNION { { [status_code |-> 200, returned |-> n, features |-> fs, links |-> ls] :
                fs \in FeatureSeqs(used + 1, n), ls \in LinkChoices(u) } :
            n \in 1..(MaxScenes - used) }
\* A response with another status: its body is never read.
ErrorPage == [status_code |-> 404, returned |-> NoValue, features |-> <<>>, links |-> <<>>]

\* ------------------------------------------------------------ the state
VARIABLES
    pc,             \* where execute stands: "dates", "cursor", "buffer", "search", "return" (of search_stac),
                    \* "get_data", "img", "mtd", "done", "failed"
    tool,           \* which tool runs: "screen" (GetImgFromScreen) or "shp" (GetImgFromShp)
    out_prefix,     \* the out_prefix parameter (screen), row[0] of the current row (shp)
    row,            \* number of rows the cursor has yielded
    url,            \* search_stac: url of the next request
    request_count,  \* search_stac: request_count
    returned,       \* search_stac: returned
    scene_info,     \* scene_info["scenes"]
    requests,       \* the GETs search_stac has sent in this call, in order
    responses,      \* the responses to them, in order
    i,              \* get_data: index of the scene of the current loop pass
    vis_file,       \* get_data: vis_file of the current pass
    mtd_file,       \* get_data: mtd_file of the current pass
    vrt_lyr,        \* get_data: vrt_lyr of the current pass
    dir,            \* the files under out_dir: path -> content
    temp,           \* the files under temp_dir
    gd_log,         \* what the steps of this get_data call did, in order
    error,          \* the helper whose exception ended execute, "" while none has
    run,            \* number of the get_data call on the same scene list
    dir_before      \* dir when the get_data call in progress began (dir, between calls)

vars == <<pc, tool, out_prefix, row, url, request_count, returned, scene_info, requests,
          responses, i, vis_file, mtd_file, vrt_lyr, dir, temp, gd_log, error,
          run, dir_before>>

search_vars == <<url, request_count, returned, scene_info, requests, responses>>
pass_vars == <<i, vis_file, mtd_file, vrt_lyr>>
disk_vars == <<dir, temp>>
call_vars == <<run, dir_before>>

EmptyDir == [f \in {} |-> ""]

\* What out_dir can hold when execute begins: it is created when missing, and
\* used as it is when it exists, e.g. with the files an earlier execute left.
InitDirs ==
    { EmptyDir,
      [f \in { <<"out", "/", "AOI1", "_", "S2A_X", "_", "TCI", ".", "tif">>,
                <<"out", "/", "AOI1", "_", "S2A_X", "_", "metadata", ".", "xml">> } |-> "old"] }

\* ------------------------------------------------------------- execute
Init ==
    /\ tool \in Tools
    /\ out_prefix \in IF tool = "screen" THEN Prefixes ELSE {<<>>}
    /\ pc = IF tool = "screen" THEN "buffer" ELSE "dates"
    /\ row = 0
    /\ url = stac_url
    /\ request_count = 1
    /\ returned = NoValue
    /\ scene_info = <<>>
    /\ requests = <<>>
    /\ responses = <<>>
    /\ i = 1
    /\ vis_file = <<>>
    /\ mtd_file = <<>>
    /\ vrt_lyr = <<>>
    /\ dir \in InitDirs
    /\ temp = {}
    /\ gd_log = <<>>
    /\ error = ""
    /\ run = 1
    /\ dir_before = dir

\* An exception reaches execute's except clause: logged, re-raised, execute ends.
Raise(helper) ==
    /\ pc' = "failed"
    /\ error' = helper

\* search_stac is entered: its locals are set.
EnterSearch ==
    /\ pc' = "search"
    /\ url' = stac_url
    /\ request_count' = 1
    /\ returned' = NoValue
    /\ scene_info' = <<>>
    /\ requests' = <<>>
    /\ responses' = <<>>

\* get_iso_date(start_date), get_iso_date(end_date): strftime answers or raises.
GetIsoDate ==
    /\ pc = "dates"
    /\ \E ok \in BOOLEAN :
        IF ok
        THEN IF tool = "screen"
             THEN EnterSearch /\ UNCHANGED <<row, error>>
             ELSE /\ pc' = "cursor"
                  /\ UNCHANGED <<row, error, search_vars>>
        ELSE Raise("get_iso_date") /\ UNCHANGED <<row, search_vars>>
    /\ UNCHANGED <<tool, out_prefix, pass_vars, disk_vars, gd_log, call_vars>>

\* for row in cursor: the cursor yields the next row, or it has no more.
Cursor ==
    /\ pc = "cursor"
    /\ \E more \in BOOLEAN :
        IF more /\ row < MaxRows
        THEN \E p \in RowPrefixes :
             /\ out_prefix' = p
             /\ row' = row + 1
             /\ pc' = "buffer"
        ELSE /\ pc' = "done"
             /\ UNCHANGED <<out_prefix, row>>
    /\ UNCHANGED <<tool, search_vars, pass_vars, disk_vars, gd_log, error, call_vars>>

\* buffer_extent(extent_poly, buffer): projectAs answers or raises.
BufferExtent ==
    /\ pc = "buffer"
    /\ \E ok \in BOOLEAN :
        IF ok
        THEN IF tool = "screen"
             THEN pc' = "dates" /\ UNCHANGED <<error, search_vars>>
             ELSE EnterSearch /\ UNCHANGED error
        ELSE Raise("buffer_extent") /\ UNCHANGED search_vars
    /\ UNCHANGED <<tool, out_prefix, row, pass_vars, disk_vars, gd_log, call_vars>>

\* --------------------------------------------------------- search_stac
RECURSIVE NextUrl(_, _)
\* for link in links: if link.rel == "next": url = link.href
NextUrl(u, links) ==
    IF links = <<>> THEN u
    ELSE NextUrl(IF Head(links).rel = "next" THEN Head(links).href ELSE u, Tail(links))

\* BreaksLoop without the status check: every response is read as a page.
BreaksLoopMut(resp) == FALSE

\* if response.status_code != 200: break
BreaksLoop(resp) == resp.status_code # 200

\* LoopContinues without the test of returned.
LoopContinuesMut(r) == TRUE

\* while returned != 0
LoopContinues(r) == r # 0

\* params are sent with the first request only
SendsParams(count) == count = 1

\* The scene ids the catalog has served in this search.
Served == UNION { { responses[j].features[k].scene_id : k \in 1..Len(responses[j].features) } :
                  j \in 1..Len(responses) }

\* The catalog answers the same request with the same page.
Answers(req) ==
    IF \E j \in 1..Len(requests) : requests[j] = req
    THEN { responses[j] : j \in { k \in 1..Len(requests) : requests[k] = req } }
    ELSE OkPages(req.url, Cardinality(Served)) \cup {ErrorPage}

\* One pass of search_stac's while loop: the request, and what is done with
\* the response.  pc = "return" when the loop has ended.
SearchRequest ==
    /\ pc = "search"
    /\ Len(requests) < MaxRequests
    /\ LET req == [url |-> url, params |-> SendsParams(request_count)] IN
       \E failed \in BOOLEAN :
        IF failed
        THEN /\ Raise("search_stac")
             /\ UNCHANGED search_vars
        ELSE \E resp \in Answers(req) :
             /\ requests' = Append(requests, req)
             /\ responses' = Append(responses, resp)
             /\ UNCHANGED error
             /\ IF BreaksLoop(resp)
                THEN /\ pc' = "return"
                     /\ UNCHANGED <<url, request_count, returned, scene_info>>
                ELSE /\ returned' = resp.returned
                     /\ url' = NextUrl(url, resp.links)
                     /\ scene_info' = scene_info \o resp.features
                     /\ request_count' = request_count + 1
                     /\ pc' = IF LoopContinues(resp.returned) THEN "search" ELSE "return"
    /\ UNCHANGED <<tool, out_prefix, row, pass_vars, disk_vars, gd_log, call_vars>>

\* get_data is entered.
EnterGetData ==
    /\ pc' = "get_data"
    /\ i' = 1
    /\ gd_log' = <<>>
    /\ dir_before' = dir

\* return scene_info: search_stac's other locals end with the call, and
\* execute calls get_data with the scenes returned.
SearchReturn ==
    /\ pc = "return"
    /\ EnterGetData
    /\ url' = stac_url
    /\ request_count' = 1
    /\ returned' = NoValue
    /\ requests' = <<>>
    /\ responses' = <<>>
    /\ UNCHANGED <<tool, out_prefix, row, scene_info, vis_file, mtd_file, vrt_lyr, disk_vars, error, run>>

\* -------------------------------------------------- get_fname_from_url
RECURSIVE rfind(_, _)
\* p.rfind(c), counting from 1: 0 when c is not in p
rfind(p, c) ==
    IF p = <<>> THEN 0
    ELSE IF p[Len(p)] = c THEN Len(p) ELSE rfind(SubSeq(p, 1, Len(p) - 1), c)

\* splitext cutting at the last dot of the whole url, not of its last component.
splitextMut(p) ==
    IF rfind(p, ".") > 0 THEN SubSeq(p, rfind(p, "."), Len(p)) ELSE <<>>

\* os.path.splitext(p)[1]: from the last dot of the last path component on,
\* unless that component has only dots before it
splitext(p) ==
    LET sepIndex == rfind(p, "/")
        dotIndex == rfind(p, ".")
    IN  IF dotIndex > sepIndex /\ \E k \in (sepIndex + 1)..(dotIndex - 1) : p[k] # "."
        THEN SubSeq(p, dotIndex, Len(p))
        ELSE <<>>

\* os.path.splitext raises TypeError on None and on {}
FnameRaises(file_url) == file_url.ty # "str"

\* f"{file_prefix}_{scene_id}_{file_suffix}{file_ext}"
get_fname_from_url(scene_id, file_url, file_prefix, file_suffix) ==
    file_prefix \o <<"_", scene_id, "_", file_suffix>> \o splitext(file_url.val)

os_path_join(a, b) == a \o <<"/">> \o b
TempDir == os_path_join(OutDir, <<"temp">>)

\* ---------------------------------------------- download_img, download_mtd
Exists(d, f) == f \in DOMAIN d
Put(d, f, content) == [g \in DOMAIN d \cup {f} |-> IF g = f THEN content ELSE d[g]]

\* cog_url: in_url behind /vsicurl/
CogUrl(in_url) ==
    IF Len(in_url) >= 3 /\ SubSeq(in_url, 1, 3) = <<"/", "vsicurl", "/">>
    THEN in_url ELSE <<"/", "vsicurl", "/">> \o in_url

\* ImgOutcomes without the os.path.exists(out_file) early return.
ImgOutcomesMut(in_url, out_file, d) ==
    IF in_url = None THEN {"no_url"}
    ELSE IF in_url.ty # "str" THEN {"startswith_raise"}
    ELSE {"open_none", "open_raise", "translate_raise", "clip_raise", "saved"}

\* How a download_img call can end.  "exists", "no_url": the early returns;
\* "open_none": gdal.OpenEx answers None; "saved": the clip is written; the
\* others: the named call raises.
ImgOutcomes(in_url, out_file, d) ==
    IF Exists(d, out_file) THEN {"exists"}
    ELSE IF in_url = None THEN {"no_url"}
    ELSE IF in_url.ty # "str" THEN {"startswith_raise"}
    ELSE {"open_none", "open_raise", "translate_raise", "clip_raise", "saved"}

\* ImgRaises with the exception of arcpy.management.Clip swallowed.
ImgRaisesMut(outcome) ==
    outcome \in {"startswith_raise", "open_raise", "translate_raise"}

\* The outcomes in which download_img re-raises.
ImgRaises(outcome) ==
    outcome \in {"startswith_raise", "open_raise", "translate_raise", "clip_raise"}

\* out_dir after download_img: arcpy.management.Clip writes out_file
ImgDir(d, out_file, outcome) ==
    IF outcome = "saved" THEN Put(d, out_file, "clipped") ELSE d

\* temp_dir after download_img: gdal.Translate writes in_lyr
ImgTemp(t, in_lyr, outcome) ==
    IF outcome \in {"clip_raise", "saved"} THEN t \cup {in_lyr} ELSE t

\* MtdOutcomes without the os.path.exists(out_file) early return.
MtdOutcomesMut(in_url, out_file, d) ==
    IF in_url = None THEN {"no_url"}
    ELSE IF in_url.ty # "str" THEN {"get_raise"}
    ELSE {"saved", "not_ok", "get_raise"}

\* How a download_mtd call can end.  "exists", "no_url": the early returns;
\* "saved": status 200, the text is written; "not_ok": another status;
\* "get_raise": session.get raises.
MtdOutcomes(in_url, out_file, d) ==
    IF Exists(d, out_file) THEN {"exists"}
    ELSE IF in_url = None THEN {"no_url"}
    ELSE IF in_url.ty # "str" THEN {"get_raise"}
    ELSE {"saved", "not_ok", "get_raise"}

MtdRaises(outcome) == outcome = "get_raise"

\* out_dir after download_mtd: open(out_file, "w") creates the file before the
\* GET is sent, f.write fills it on status 200 only
MtdDir(d, out_file, outcome) ==
    IF outcome = "saved" THEN Put(d, out_file, "text")
    ELSE IF outcome \in {"not_ok", "get_raise"} THEN Put(d, out_file, "empty")
    ELSE d

\* ------------------------------------------------------------ get_data
Step(scene, op, outcome) == [scene |-> scene, op |-> op, outcome |-> outcome]

\* get_data returns to execute, its locals end with the call: the next row of
\* the cursor, or the end.
ReturnFromGetData ==
    /\ pc' = IF tool = "shp" THEN "cursor" ELSE "done"
    /\ i' = 1
    /\ vis_file' = <<>>
    /\ mtd_file' = <<>>
    /\ vrt_lyr' = <<>>
    /\ gd_log' = <<>>
    /\ dir_before' = dir

\* The head of get_data's for loop: it returns after the last scene, else it
\* names the files of scene i and projects the clip extent.
GetDataNext ==
    /\ pc = "get_data"
    /\ IF i > Len(scene_info)
       THEN /\ ReturnFromGetData
            /\ UNCHANGED error
       ELSE LET item == scene_info[i]
            IN  IF FnameRaises(item.vis_url) \/ FnameRaises(item.mtd_url)
                THEN /\ Raise("get_fname_from_url")
                     /\ gd_log' = Append(gd_log, Step(i, "names", "fname_raise"))
                     /\ UNCHANGED <<pass_vars, dir_before>>
                ELSE \E projected \in BOOLEAN :
                     /\ vis_file' = os_path_join(OutDir,
                            get_fname_from_url(item.scene_id, item.vis_url, out_prefix, "TCI"))
                     /\ mtd_file' = os_path_join(OutDir,
                            get_fname_from_url(item.scene_id, item.mtd_url, out_prefix, "metadata"))
                     /\ vrt_lyr' = os_path_join(TempDir, <<item.scene_id, "_", "TCI", ".", "vrt">>)
                     /\ UNCHANGED <<i, dir_before>>
                     /\ IF projected
                        THEN /\ pc' = "img"
                             /\ gd_log' = Append(gd_log, Step(i, "names", "named"))
                             /\ UNCHANGED error
                        ELSE /\ Raise("get_data")
                             /\ gd_log' = Append(gd_log, Step(i, "names", "project_raise"))
    /\ UNCHANGED <<tool, out_prefix, row, search_vars, disk_vars, run>>

\* download_img(scene_id, vis_url, vrt_lyr, clip_extent_proj, vis_file)
DownloadImg ==
    /\ pc = "img"
    /\ \E outcome \in ImgOutcomes(scene_info[i].vis_url, vis_file, dir) :
        /\ dir' = ImgDir(dir, vis_file, outcome)
        /\ temp' = ImgTemp(temp, vrt_lyr, outcome)
        /\ gd_log' = Append(gd_log, Step(i, "img", outcome))
        /\ IF ImgRaises(outcome)
           THEN Raise("download_img")
           ELSE pc' = "mtd" /\ UNCHANGED error
    /\ UNCHANGED <<tool, out_prefix, row, search_vars, pass_vars, call_vars>>

\* download_mtd(session, scene_id, mtd_url, mtd_file), then the next pass
DownloadMtd ==
    /\ pc = "mtd"
    /\ \E outcome \in MtdOutcomes(scene_info[i].mtd_url, mtd_file, dir) :
        /\ dir' = MtdDir(dir, mtd_file, outcome)
        /\ gd_log' = Append(gd_log, Step(i, "mtd", outcome))
        /\ IF MtdRaises(outcome)
           THEN Raise("download_mtd") /\ UNCHANGED i
           ELSE pc' = "get_data" /\ i' = i + 1 /\ UNCHANGED error
    /\ UNCHANGED <<tool, out_prefix, row, search_vars, vis_file, mtd_file, vrt_lyr, temp, call_vars>>

\* ------------------------------------------------------ specifications
Next ==
    \/ GetIsoDate
    \/ Cursor
    \/ BufferExtent
    \/ SearchRequest
    \/ SearchReturn
    \/ GetDataNext
    \/ DownloadImg
    \/ DownloadMtd

Spec == Init /\ [][Next]_vars

\* get_data called again with the scene list, prefix and directories of the
\* call that has just returned.
Rerun ==
    /\ pc = "done"
    /\ run < MaxRuns
    /\ run' = run + 1
    /\ EnterGetData
    /\ UNCHANGED <<tool, out_prefix, row, search_vars, vis_file, mtd_file, vrt_lyr, disk_vars, error>>

\* The scene lists get_data is called with.
SceneLists == UNION { FeatureSeqs(1, n) : n \in 0..MaxScenes }

InitGetData ==
    /\ tool = "screen"
    /\ out_prefix \in Prefixes
    /\ pc = "get_data"
    /\ row = 0
    /\ url = stac_url
    /\ request_count = 1
    /\ returned = NoValue
    /\ scene_info \in SceneLists
    /\ requests = <<>>
    /\ responses = <<>>
    /\ i = 1
    /\ vis_file = <<>>
    /\ mtd_file = <<>>
    /\ vrt_lyr = <<>>
    /\ dir = EmptyDir
    /\ temp = {}
    /\ gd_log = <<>>
    /\ error = ""
    /\ run = 1
    /\ dir_before = EmptyDir

NextGetData ==
    \/ GetDataNext
    \/ DownloadImg
    \/ DownloadMtd
    \/ Rerun

SpecGetData == InitGetData /\ [][NextGetData]_vars

\* ============================================================== claims
Last(q) == q[Len(q)]

RECURSIVE PagesFeatures(_)
\* The features of the 200 pages of resps, in page order.
PagesFeatures(resps) ==
    IF resps = <<>> THEN <<>>
    ELSE (IF Head(resps).status_code = 200 THEN Head(resps).features ELSE <<>>)
         \o PagesFeatures(Tail(resps))

AllOk(resps) == \A j \in 1..Len(resps) : resps[j].status_code = 200

\* C1: search_stac stops at the first 200 response that reports returned = 0:
\* no request follows it, and for k pages with returned > 0 followed by one
\* with returned = 0 the k + 1 requests were sent and the result returned is
\* the features of those pages, in page order.
C1_StopsAtReturnedZero ==
    /\ \A j \in 1..Len(responses) :
        (responses[j].status_code = 200 /\ responses[j].returned = 0)
            => (j = Len(responses) /\ pc = "return")
    /\ (pc = "return" /\ AllOk(responses) /\ Last(responses).returned = 0)
        => /\ Len(requests) = Len(responses)
           /\ \A j \in 1..(Len(responses) - 1) : responses[j].returned > 0
           /\ scene_info = PagesFeatures(responses)
           /\ error = ""

C1_Witness ==
    /\ pc = "return"
    /\ Len(requests) = 3
    /\ AllOk(responses)
    /\ responses[1].returned = 1
    /\ responses[2].returned = 1
    /\ responses[3].returned = 0
    /\ Len(scene_info) = 2

\* C2 (as claimed): the first request goes to the base url with the query
\* parameters; every later request goes, without parameters, to the href of a
\* rel="next" link of the response just before it.
C2_LaterRequestsFollowNextLink ==
    \A j \in 1..Len(requests) :
        IF j = 1
        THEN requests[j] = [url |-> stac_url, params |-> TRUE]
        ELSE /\ requests[j].params = FALSE
             /\ \E k \in 1..Len(responses[j - 1].links) :
                    /\ responses[j - 1].links[k].rel = "next"
                    /\ responses[j - 1].links[k].href = requests[j].url

\* C3: a response whose status is not 200 ends the search: it is the last
\* request of the call, no exception is raised, search_stac is about to return
\* the scenes of the 200 pages before it, and the caller's next step enters
\* get_data with exactly those scenes.
C3_NonOkReturnsPartial ==
    /\ [](\A j \in 1..Len(responses) :
            responses[j].status_code # 200
                => /\ j = Len(responses)
                   /\ pc = "return"
                   /\ error = ""
                   /\ Len(requests) = Len(responses)
                   /\ scene_info = PagesFeatures(responses))
    /\ [][(pc = "return" /\ Last(responses).status_code # 200)
            => (pc' = "get_data" /\ i' = 1 /\ scene_info' = scene_info /\ error' = "")]_vars

C3_Witness ==
    /\ pc = "return"
    /\ Len(responses) = 2
    /\ responses[1].status_code = 200
    /\ responses[2].status_code # 200
    /\ Len(scene_info) >= 1
    /\ scene_info = responses[1].features

\* ---- get_data
HasUrl(v) == v.ty = "str"

\* C4 (as claimed): the pass of a scene whose visual href is null or absent
\* raises no exception: the visual file is skipped and the pass goes on.
C4_MissingVisualIsSkipped ==
    \A k \in 1..Len(gd_log) :
        ~HasUrl(scene_info[gd_log[k].scene].vis_url)
            => /\ gd_log[k].outcome # "fname_raise"
               /\ pc # "failed"

\* The steps that reached the network: a remote raster open, a metadata GET.
IsRemote(step) ==
    \/ step.op = "img" /\ step.outcome \in {"open_none", "open_raise", "translate_raise", "clip_raise", "saved"}
    \/ step.op = "mtd" /\ step.outcome \in {"saved", "not_ok", "get_raise"}

NoRemoteStep == \A k \in 1..Len(gd_log) : ~IsRemote(gd_log[k])

\* C5 (as claimed): a get_data call that follows one that returned, on the same
\* scene list, prefix and directories, opens no remote raster, sends no
\* metadata GET and leaves the output directory as it was.
C5_SecondRunFetchesNothing ==
    run >= 2 => (NoRemoteStep /\ dir = dir_before)

\* The visual file of every scene of the list was in the output directory when
\* the call in progress began.
StartsWith(f, head) == Len(f) >= Len(head) /\ SubSeq(f, 1, Len(head)) = head

VisualsWereThere ==
    \A k \in 1..Len(scene_info) :
        \E f \in DOMAIN dir_before :
            StartsWith(f, <<"out", "/">> \o out_prefix \o <<"_", scene_info[k].scene_id, "_", "TCI">>)

\* C5 (amended): when the call that returned left the visual file of every
\* scene in the output directory (no raster open of it answered None), the
\* call that follows opens no remote raster, sends no metadata GET and leaves
\* the output directory as it was.
C5_SecondRunAfterCompleteRun ==
    (run >= 2 /\ VisualsWereThere) => (NoRemoteStep /\ dir = dir_before)

C5_Witness ==
    /\ run = 2
    /\ pc = "get_data"
    /\ Len(scene_info) = 2
    /\ i > Len(scene_info)
    /\ VisualsWereThere
    /\ \E k \in 1..Len(gd_log) : gd_log[k] = Step(2, "mtd", "exists")
    /\ \E f \in DOMAIN dir : dir[f] = "empty"

\* How the processing of a scene can fail: reprojection, raster open,
\* translate, clip, metadata fetch.
SceneFailures ==
    {"project_raise", "open_none", "open_raise", "translate_raise", "clip_raise",
     "not_ok", "get_raise"}

\* The failures that are exceptions.
Exceptions ==
    {"fname_raise", "project_raise", "startswith_raise", "open_raise",
     "translate_raise", "clip_raise", "get_raise"}

\* C6 (as claimed): a failure while a scene is processed does not end
\* get_data: the scenes after it in the list are still processed.
C6_FailureSkipsOnlyTheScene ==
    \A k \in 1..Len(gd_log) :
        (gd_log[k].outcome \in SceneFailures /\ gd_log[k].scene < Len(scene_info))
            => pc # "failed"

\* C7 (as claimed): every failure inside a helper ends execute: after a failed
\* step of get_data nothing more is processed.
C7_EveryFailureAborts ==
    \A k \in 1..Len(gd_log) :
        gd_log[k].outcome \in SceneFailures \cup {"fname_raise"} => pc = "failed"

\* C7 (amended): every exception raised inside a helper ends execute, and
\* nothing is processed after it: no later scene, no later row.  A failure the
\* helper reports without raising (gdal.OpenEx answering None, a metadata
\* response with another status than 200) does not end it: the pass goes on.
C7_ExceptionsAbort ==
    /\ [](/\ \A k \in 1..Len(gd_log) :
                gd_log[k].outcome \in Exceptions => (pc = "failed" /\ k = Len(gd_log))
          /\ (pc = "failed") <=> (error # "")
          /\ (gd_log # <<>> /\ Last(gd_log).outcome \in {"open_none", "not_ok"})
                => pc \in {"mtd", "get_data"})
    /\ [][pc # "failed"]_vars

C7_Witness ==
    /\ pc = "failed"
    /\ error = "download_img"
    /\ Last(gd_log).outcome = "clip_raise"
    /\ tool = "shp"
    /\ row < MaxRows
    /\ i < Len(scene_info)

\* The extensions of the hrefs of the catalog's features, by feature number.
VisExt == << <<".", "tif">>, <<".", "jp2">>, <<>>, <<>> >>
MtdExt == << <<".", "xml">>, <<>>, <<".", "xml">>, <<".">> >>
SceneNumber(id) == CHOOSE n \in 1..Len(SceneIds) : SceneIds[n] = id

\* get_data has passed over every scene and no step called arcpy.AddError.
RanWithoutError ==
    /\ pc = "get_data"
    /\ i > Len(scene_info)
    /\ \A k \in 1..Len(gd_log) : gd_log[k].outcome \notin Exceptions \cup {"open_none"}

\* C8: after a get_data run with prefix p in which nothing failed, the output
\* directory holds, for every scene with a visual and a metadata href,
\* <p>_<sceneId>_TCI<ext> and <p>_<sceneId>_metadata<ext>, ext being the
\* extension of the href.
C8_FilesAreNamed ==
    RanWithoutError =>
        \A k \in 1..Len(scene_info) :
            LET sc == scene_info[k]
                n == SceneNumber(sc.scene_id)
            IN  (HasUrl(sc.vis_url) /\ HasUrl(sc.mtd_url)) =>
                /\ (<<"out", "/">> \o out_prefix \o <<"_", sc.scene_id, "_", "TCI">> \o VisExt[n])
                        \in DOMAIN dir
                /\ (<<"out", "/">> \o out_prefix \o <<"_", sc.scene_id, "_", "metadata">> \o MtdExt[n])
                        \in DOMAIN dir

C8_Witness ==
    /\ RanWithoutError
    /\ Len(scene_info) = 2
    /\ <<"out", "/", "AOI1", "_", "S2A_X", "_", "TCI", ".", "tif">> \in DOMAIN dir
    /\ <<"out", "/", "AOI1", "_", "S2A_X", "_", "metadata", ".", "xml">> \in DOMAIN dir
    /\ <<"out", "/", "AOI1", "_", "S2B_Y", "_", "metadata">> \in DOMAIN dir

\* C9 (as claimed): within one search_stac call no url is requested twice and
\* no feature is appended twice.
C9_NoPageRequestedTwice ==
    /\ \A j, k \in 1..Len(requests) : j # k => requests[j].url # requests[k].url
    /\ pc \in {"search", "return"} =>
        \A j, k \in 1..Len(scene_info) : j # k => scene_info[j] # scene_info[k]

\* C10 (as claimed): when download_mtd has returned or raised, the metadata
\* file exists only if it existed before the call or the GET answered 200 and
\* the text was written.
C10_MetadataFileOnlyIfWritten ==
    (gd_log # <<>> /\ Last(gd_log).op = "mtd" /\ Exists(dir, mtd_file))
        => Last(gd_log).outcome \in {"exists", "saved"}

\* C11: no step of execute overwrites, truncates or deletes a file of the
\* output directory: a file that is there keeps its content, whatever scenes
\* and rows follow, also those whose files have the same names.
C11_ExistingFilesKept ==
    [][\A f \in DOMAIN dir : f \in DOMAIN dir' /\ dir'[f] = dir[f]]_vars

\* The second row has the prefix of the first and the catalog serves the same
\* scene: both of its files were there, one of them left empty by the first row.
C11_Witness ==
    /\ tool = "shp"
    /\ row = 2
    /\ pc = "get_data"
    /\ gd_log = <<Step(1, "names", "named"), Step(1, "img", "exists"), Step(1, "mtd", "exists")>>
    /\ dir_before[vis_file] \in {"old", "clipped"}
    /\ dir_before[mtd_file] = "empty"
    /\ dir = dir_before
====
